---- MODULE Spec2Model ----
(***************************************************************************)
(* A model of src/src/world.rs: the world of one player and its enemies,   *)
(* and the per-frame update (controls, gameplay, detect_collisions,        *)
(* handle_bounds).                                                         *)
(*                                                                         *)
(* Lengths are integers counting tenths of a world unit, so that the       *)
(* source's 5.0, 1.0, 204.8 and 256.0 are 50, 10, 2048 and 2560.           *)
(* A random draw is a nondeterministic choice among sample points of the   *)
(* half-open interval the source draws from.                               *)
(***************************************************************************)
EXTENDS Integers, Sequences, FiniteSets, TLC

VARIABLES
    world,    \* the World owned by main.rs's Model
    app,      \* what the App showed to the last call of update
    spawned,  \* history: the World the last call of setup_world returned
    moved,    \* history: the World as the last call of gameplay left it
    last,     \* history: whether the player was alive when update was last
              \* called, and which branches that call took
    age,      \* number of gameplay steps applied to the current World
    probe     \* operands and results of the overlap test (SpecOverlap only)

vars == <<world, app, spawned, moved, last, age, probe>>

----------------------------------------------------------------------------
(* Bounds of the model *)

\* Number of enemies in a world; stands for num_enemies = 500 of setup_world.
NumEnemies == 1

\* A world takes at most this many gameplay steps before it must be reset.
MaxAge == 1

----------------------------------------------------------------------------
(* Inputs *)

\* Pointer positions: one next to the far corner of the spawn region (inside
\* the window as built, outside the resized one), one beyond every window.
Pointers == {[x |-> 2137, y |-> -2139], [x |-> 3000, y |-> -3000]}

\* nannou's Rect::from_w_h: a rectangle of the given size centred on the origin.
rect_from_w_h(w, h) ==
    [left |-> -(w \div 2), right |-> w \div 2, bottom |-> -(h \div 2), top |-> h \div 2]

\* The window as built by main.rs (512 x 512); the user may resize it, here
\* to 300 x 200.
window_rect == rect_from_w_h(5120, 5120)

Rects == {window_rect, rect_from_w_h(3000, 2000)}

\* random_range(min, max) for the uniform variate u: nannou orders the two
\* limits, then draws from the half-open interval [min, max). The variate is
\* taken at its two extremes: u = 0 gives min, u = 1 the last point below max.
random_range(min, max, u) ==
    LET lo == IF min <= max THEN min ELSE max
        hi == IF min <= max THEN max ELSE min
    IN  IF u = 0 THEN lo ELSE hi - 1

\* The variates one random draw can consume.
Variates == {0, 1}

\* The variates one enemy_spawn_position call consumes (coin and coordinate
\* for x, then for y): the draws that put the enemy on the two corners next
\* to the player and on two outer corners of the spawn region.
SpawnDice == {<<0, 0, 0, 0>>, <<1, 1, 1, 1>>, <<0, 1, 1, 0>>, <<1, 0, 0, 1>>}

\* The variates one enemy's random step consumes (x, then y): both steps
\* down, both up, and x up with y down.
WalkDice == {<<0, 0>>, <<1, 1>>, <<1, 0>>}

\* One draw per enemy.
SpawnDraws == [1..NumEnemies -> SpawnDice]
WalkDraws == [1..NumEnemies -> WalkDice]
NoDraws == [i \in 1..NumEnemies |-> <<0, 0, 0, 0>>]

----------------------------------------------------------------------------
(* Entities *)

White == <<255, 255, 255>>
Black == <<0, 0, 0>>
Red   == <<255, 0, 0>>

Player_default ==
    [position |-> [x |-> 0, y |-> 0], radius |-> 50, color |-> White, alive |-> TRUE]

Enemy_default ==
    [position |-> [x |-> 0, y |-> 0], radius |-> 50, color |-> Red, alive |-> TRUE]

abs(v) == IF v < 0 THEN -v ELSE v

----------------------------------------------------------------------------
(* Spawn policy *)

\* enemy_spawn_position keeping only one radius of clearance.
enemy_spawn_position_near(player, u) ==
    LET position == player.position
        radius == player.radius
        size == ((5120 \div 2) * 80) \div 100
    IN  [x |-> IF random_range(0, 10, u[1]) > 5
                  THEN random_range(-size, position.x - radius, u[2])
                  ELSE random_range(position.x + radius, size, u[2]),
         y |-> IF random_range(0, 10, u[3]) > 5
                  THEN random_range(-size, position.y - radius, u[4])
                  ELSE random_range(position.y + radius, size, u[4])]

\* enemy_spawn_position without the 80% margin.
enemy_spawn_position_wide(player, u) ==
    LET position == player.position
        radius == player.radius * 2
        size == 5120 \div 2
    IN  [x |-> IF random_range(0, 10, u[1]) > 5
                  THEN random_range(-size, position.x - radius, u[2])
                  ELSE random_range(position.x + radius, size, u[2]),
         y |-> IF random_range(0, 10, u[3]) > 5
                  THEN random_range(-size, position.y - radius, u[4])
                  ELSE random_range(position.y + radius, size, u[4])]

enemy_spawn_position(player, u) ==
    LET position == player.position
        radius == player.radius * 2
        size == ((5120 \div 2) * 80) \div 100
    IN  [x |-> IF random_range(0, 10, u[1]) > 5
                  THEN random_range(-size, position.x - radius, u[2])
                  ELSE random_range(position.x + radius, size, u[2]),
         y |-> IF random_range(0, 10, u[3]) > 5
                  THEN random_range(-size, position.y - radius, u[4])
                  ELSE random_range(position.y + radius, size, u[4])]

\* The world setup_world returns when its draws consume the variates us.
setup_world(us) ==
    LET player == Player_default
        num_enemies == NumEnemies
        enemies == [i \in 1..num_enemies |->
                      [Enemy_default EXCEPT !.position = enemy_spawn_position(player, us[i])]]
    IN  [player |-> player, enemies |-> enemies]

----------------------------------------------------------------------------
(* The steps of a frame *)

\* controls replacing the enemies only, the dead player kept.
controls_keep_player(a, w, us) ==
    IF a.left_down /\ ~w.player.alive
       THEN [player |-> w.player, enemies |-> setup_world(us).enemies]
       ELSE w

\* controls restarting a dead world whether or not the button is down.
controls_any_button(a, w, us) ==
    IF ~w.player.alive THEN setup_world(us) ELSE w

\* controls restarting on every left click, dead or alive.
controls_every_click(a, w, us) ==
    IF a.left_down THEN setup_world(us) ELSE w

\* Left click while dead: restart.
controls(a, w, us) ==
    IF a.left_down /\ ~w.player.alive THEN setup_world(us) ELSE w

\* gameplay moving the player only half the way to the pointer.
gameplay_smooth(a, w, vs) ==
    [player |-> [w.player EXCEPT !.position =
                   [x |-> (w.player.position.x + a.mouse.x) \div 2,
                    y |-> (w.player.position.y + a.mouse.y) \div 2]],
     enemies |-> [i \in 1..Len(w.enemies) |->
                    LET enemy == w.enemies[i]
                    IN  [enemy EXCEPT !.position =
                           [x |-> random_range(enemy.position.x - 10, enemy.position.x + 10, vs[i][1]),
                            y |-> random_range(enemy.position.y - 10, enemy.position.y + 10, vs[i][2])]]]]

\* gameplay with steps of up to two units.
gameplay_stride(a, w, vs) ==
    [player |-> [w.player EXCEPT !.position = [x |-> a.mouse.x, y |-> a.mouse.y]],
     enemies |-> [i \in 1..Len(w.enemies) |->
                    LET enemy == w.enemies[i]
                    IN  [enemy EXCEPT !.position =
                           [x |-> random_range(enemy.position.x - 20, enemy.position.x + 20, vs[i][1]),
                            y |-> random_range(enemy.position.y - 20, enemy.position.y + 20, vs[i][2])]]]]

\* The player follows the mouse, each enemy takes one random step.
gameplay(a, w, vs) ==
    [player |-> [w.player EXCEPT !.position = [x |-> a.mouse.x, y |-> a.mouse.y]],
     enemies |-> [i \in 1..Len(w.enemies) |->
                    LET enemy == w.enemies[i]
                    IN  [enemy EXCEPT !.position =
                           [x |-> random_range(enemy.position.x - 10, enemy.position.x + 10, vs[i][1]),
                            y |-> random_range(enemy.position.y - 10, enemy.position.y + 10, vs[i][2])]]]]

\* The test with touching entities counted as overlapping.
overlaps_inclusive(a, b) ==
    LET radius == a.radius + b.radius
        x == abs(a.position.x - b.position.x)
        y == abs(a.position.y - b.position.y)
    IN  x <= radius /\ y <= radius

\* The test with the x distance taken signed.
overlaps_signed(a, b) ==
    LET radius == a.radius + b.radius
        x == a.position.x - b.position.x
        y == abs(a.position.y - b.position.y)
    IN  x < radius /\ y < radius

\* The test of detect_collisions' loop body.
overlaps(a, b) ==
    LET radius == a.radius + b.radius
        x == abs(a.position.x - b.position.x)
        y == abs(a.position.y - b.position.y)
    IN  x < radius /\ y < radius

\* The loop clearing the alive flag and leaving the color.
RECURSIVE detect_from_nocolor(_, _, _)
detect_from_nocolor(player, enemies, i) ==
    IF i > Len(enemies) THEN player
    ELSE detect_from_nocolor(IF overlaps(player, enemies[i])
                                THEN [player EXCEPT !.alive = FALSE]
                                ELSE player,
                             enemies, i + 1)

\* The loop with the last enemy deciding: an enemy that does not overlap
\* revives the player.
RECURSIVE detect_from_last(_, _, _)
detect_from_last(player, enemies, i) ==
    IF i > Len(enemies) THEN player
    ELSE detect_from_last(IF overlaps(player, enemies[i])
                             THEN [player EXCEPT !.color = Black, !.alive = FALSE]
                             ELSE [player EXCEPT !.color = White, !.alive = TRUE],
                          enemies, i + 1)

\* detect_collisions' loop from the i-th enemy on.
RECURSIVE detect_from(_, _, _)
detect_from(player, enemies, i) ==
    IF i > Len(enemies) THEN player
    ELSE detect_from(IF overlaps(player, enemies[i])
                        THEN [player EXCEPT !.color = Black, !.alive = FALSE]
                        ELSE player,
                     enemies, i + 1)

\* detect_collisions killing the enemies that overlap the player too.
detect_collisions_both(w) ==
    [player |-> detect_from(w.player, w.enemies, 1),
     enemies |-> [i \in 1..Len(w.enemies) |->
                    IF overlaps(w.player, w.enemies[i])
                       THEN [w.enemies[i] EXCEPT !.alive = FALSE]
                       ELSE w.enemies[i]]]

detect_collisions(w) ==
    [w EXCEPT !.player = detect_from(w.player, w.enemies, 1)]

\* world_boundary without the right edge.
world_boundary_no_right(a, position) ==
    LET y1 == IF position.y > a.window_rect.top THEN a.window_rect.top ELSE position.y
        y2 == IF y1 < a.window_rect.bottom THEN a.window_rect.bottom ELSE y1
        x1 == IF position.x < a.window_rect.left THEN a.window_rect.left ELSE position.x
    IN  [x |-> x1, y |-> y2]

world_boundary(a, position) ==
    LET y1 == IF position.y > a.window_rect.top THEN a.window_rect.top ELSE position.y
        y2 == IF y1 < a.window_rect.bottom THEN a.window_rect.bottom ELSE y1
        x1 == IF position.x < a.window_rect.left THEN a.window_rect.left ELSE position.x
        x2 == IF x1 > a.window_rect.right THEN a.window_rect.right ELSE x1
    IN  [x |-> x2, y |-> y2]

\* handle_bounds leaving a dead player where it is.
handle_bounds_alive_only(a, w) ==
    [player |-> IF w.player.alive
                   THEN [w.player EXCEPT !.position = world_boundary(a, w.player.position)]
                   ELSE w.player,
     enemies |-> [i \in 1..Len(w.enemies) |->
                    [w.enemies[i] EXCEPT !.position = world_boundary(a, w.enemies[i].position)]]]

handle_bounds(a, w) ==
    [player |-> [w.player EXCEPT !.position = world_boundary(a, w.player.position)],
     enemies |-> [i \in 1..Len(w.enemies) |->
                    [w.enemies[i] EXCEPT !.position = world_boundary(a, w.enemies[i].position)]]]

\* update ending the frame after a restart.
update_reset_only(a, w, us, vs) ==
    LET w1 == controls(a, w, us)
        w2 == gameplay(a, w1, vs)
    IN  IF w1.player.alive /\ w.player.alive
           THEN [world |-> handle_bounds(a, detect_collisions(w2)),
                 controlled |-> w1, moved |-> w2, gated |-> TRUE]
           ELSE [world |-> w1, controlled |-> w1, moved |-> w1, gated |-> FALSE]

\* update running the gameplay steps whether or not the player is alive.
update_ungated(a, w, us, vs) ==
    LET w1 == controls(a, w, us)
        w2 == gameplay(a, w1, vs)
    IN  [world |-> handle_bounds(a, detect_collisions(w2)),
         controlled |-> w1, moved |-> w2, gated |-> TRUE]

\* update, for the variates its draws consume: the world it leaves, with the
\* world as controls and as gameplay left it, and whether the alive-gated
\* branch ran.
update(a, w, us, vs) ==
    LET w1 == controls(a, w, us)
        w2 == gameplay(a, w1, vs)
    IN  IF w1.player.alive
           THEN [world |-> handle_bounds(a, detect_collisions(w2)),
                 controlled |-> w1, moved |-> w2, gated |-> TRUE]
           ELSE [world |-> w1, controlled |-> w1, moved |-> w1, gated |-> FALSE]

----------------------------------------------------------------------------
(* The program: main.rs builds the world, then calls update once per frame *)

NoProbe == [a |-> Player_default, b |-> Enemy_default, run |-> FALSE, ab |-> FALSE, ba |-> FALSE]

Init ==
    /\ \E us \in SpawnDraws : world = setup_world(us)
    /\ spawned = world
    /\ moved = world
    /\ app = [mouse |-> [x |-> 0, y |-> 0], left_down |-> FALSE, window_rect |-> window_rect]
    /\ last = [was_alive |-> TRUE, reset |-> FALSE, gated |-> FALSE]
    /\ age = 0
    /\ probe = NoProbe

\* One frame: main.rs's update hands the App and the World to world::update.
Update ==
    \E mouse \in Pointers, left_down \in BOOLEAN, rect \in Rects :
        LET a == [mouse |-> mouse, left_down |-> left_down, window_rect |-> rect]
            reset == left_down /\ ~world.player.alive
            gated == reset \/ world.player.alive
        IN  /\ (world.player.alive => age < MaxAge)
            /\ \E us \in IF reset THEN SpawnDraws ELSE {NoDraws},
                  vs \in IF gated THEN WalkDraws ELSE {NoDraws} :
                \E r \in {update(a, world, us, vs)} :
                    /\ world' = r.world
                    /\ app' = a
                    /\ spawned' = IF reset THEN r.controlled ELSE spawned
                    /\ moved' = IF r.gated THEN r.moved ELSE moved
                    /\ last' = [was_alive |-> world.player.alive, reset |-> reset, gated |-> r.gated]
                    /\ age' = IF reset THEN 1 ELSE IF r.gated THEN age + 1 ELSE age
                    /\ UNCHANGED probe

Next == Update

Spec == Init /\ [][Next]_vars

----------------------------------------------------------------------------
(* The overlap test on its own: any two entities in, both orders out *)

Entities ==
    {[position |-> [x |-> x, y |-> y], radius |-> r, color |-> Red, alive |-> TRUE]
     : x \in {-60, 0, 70}, y \in {-60, 0}, r \in {20, 50}}

InitOverlap ==
    /\ world = setup_world(NoDraws)
    /\ spawned = world
    /\ moved = world
    /\ app = [mouse |-> [x |-> 0, y |-> 0], left_down |-> FALSE, window_rect |-> window_rect]
    /\ last = [was_alive |-> TRUE, reset |-> FALSE, gated |-> FALSE]
    /\ age = 0
    /\ \E a \in Entities, b \in Entities :
          probe = [a |-> a, b |-> b, run |-> FALSE, ab |-> FALSE, ba |-> FALSE]

TestOverlap ==
    /\ ~probe.run
    /\ probe' = [probe EXCEPT !.run = TRUE,
                              !.ab = overlaps(probe.a, probe.b),
                              !.ba = overlaps(probe.b, probe.a)]
    /\ UNCHANGED <<world, app, spawned, moved, last, age>>

NextOverlap == TestOverlap

SpecOverlap == InitOverlap /\ [][NextOverlap]_vars

----------------------------------------------------------------------------
(* Properties *)

InRect(rect, position) ==
    /\ rect.left <= position.x /\ position.x <= rect.right
    /\ rect.bottom <= position.y /\ position.y <= rect.top

Enemies == 1..NumEnemies

\* Some enemy lies within the sum of the radii of the player on both axes.
Hit(w) ==
    \E i \in 1..Len(w.enemies) :
        /\ abs(w.player.position.x - w.enemies[i].position.x)
              < w.player.radius + w.enemies[i].radius
        /\ abs(w.player.position.y - w.enemies[i].position.y)
              < w.player.radius + w.enemies[i].radius

\* Positions p and q differ by at most one unit on each axis.
WithinOne(p, q) == abs(p.x - q.x) <= 10 /\ abs(p.y - q.y) <= 10

\* C1 as stated: an update that restarts a dead world leaves exactly the
\* freshly constructed world: player at (0,0), alive and white, every enemy
\* on its spawn position.
C1_ResetIsOnlyEffect ==
    last.reset =>
        /\ world.player = Player_default
        /\ \A i \in Enemies : world.enemies[i].position = spawned.enemies[i].position

\* C1, amended: an update that restarts a dead world goes on to run the
\* alive-gated branch on the new world: the player is put on the pointer,
\* every enemy takes one step from its spawn position, and the update leaves
\* that world with collision detection and clamping applied.
C1_ResetThenFrame ==
    last.reset =>
        /\ last.gated
        /\ spawned.player = Player_default
        /\ moved.player.position = app.mouse
        /\ \A i \in Enemies :
              WithinOne(moved.enemies[i].position, spawned.enemies[i].position)
        /\ world.player.alive = ~Hit(moved)
        /\ world.player.position = world_boundary(app, app.mouse)
        /\ \A i \in Enemies :
              world.enemies[i].position = world_boundary(app, moved.enemies[i].position)

C1_Witness ==
    /\ last.reset
    /\ world.player.alive
    /\ world.player.position = app.mouse
    /\ world.player.position # Player_default.position

\* C2 as stated: at the end of an update that restarts a dead world the
\* player is alive, the enemy count is the configured one, and no enemy
\* overlaps the player.
C2_ResetLeavesAliveAndClear ==
    last.reset =>
        /\ world.player.alive
        /\ Len(world.enemies) = NumEnemies
        /\ ~Hit(world)

\* C2, amended: the world the restart constructs has the player alive, the
\* configured number of enemies and no enemy overlapping the player; at the
\* end of that update the count is unchanged, and the player is alive exactly
\* when no enemy overlapped it after that frame's movement.
C2_ResetConstructsAliveAndClear ==
    last.reset =>
        /\ spawned.player.alive
        /\ Len(spawned.enemies) = NumEnemies
        /\ ~Hit(spawned)
        /\ Len(world.enemies) = NumEnemies
        /\ world.player.alive = ~Hit(moved)

C2_Witness ==
    /\ last.reset
    /\ ~world.player.alive
    /\ spawned.player.alive

\* C3: an update called on a dead player without the button pressed leaves
\* the player dead; only an update with the button pressed revives it.
C3_DeadUntilReset ==
    /\ (~last.was_alive /\ ~app.left_down) => ~world.player.alive
    /\ (~last.was_alive /\ world.player.alive) => (app.left_down /\ last.reset)

C3_Witness ==
    /\ ~last.was_alive
    /\ ~app.left_down
    /\ ~world.player.alive
    /\ ~last.gated

\* C4: an update called on a dead player without the button pressed leaves
\* the world as it was, for every pointer position and window rectangle.
C4_DeadFrameChangesNothing ==
    [][(~world.player.alive /\ ~app'.left_down) => world' = world]_vars

C4_Witness ==
    /\ ~last.was_alive
    /\ ~last.gated
    /\ ~app.left_down
    /\ app.window_rect # window_rect
    /\ world.player.position # app.mouse
    /\ ~InRect(app.window_rect, world.player.position)

\* C5: at the end of every update whose alive-gated branch ran, the player
\* and every enemy lie inside the window rectangle of that frame.
C5_ClampedInsideArena ==
    last.gated =>
        /\ InRect(app.window_rect, world.player.position)
        /\ \A i \in Enemies : InRect(app.window_rect, world.enemies[i].position)

C5_Witness ==
    /\ last.gated
    /\ ~world.player.alive
    /\ ~InRect(app.window_rect, moved.player.position)
    /\ \E i \in Enemies : ~InRect(app.window_rect, moved.enemies[i].position)

\* C6: in every world setup_world returned, every enemy is at least twice the
\* player's radius away from the player on the x axis and on the y axis.
C6_SpawnClearance ==
    \A i \in Enemies :
        /\ abs(spawned.enemies[i].position.x - spawned.player.position.x)
              >= 2 * spawned.player.radius
        /\ abs(spawned.enemies[i].position.y - spawned.player.position.y)
              >= 2 * spawned.player.radius

C6_Witness ==
    /\ last.reset
    /\ \E i \in Enemies :
          /\ spawned.enemies[i].position.x - spawned.player.position.x
                = 2 * spawned.player.radius
          /\ spawned.enemies[i].position.y - spawned.player.position.y
                = 2 * spawned.player.radius

\* C7: every spawn position has both coordinates within [-204.8, 204.8], so
\* strictly inside the 512 x 512 window.
C7_SpawnInsideMargin ==
    \A i \in Enemies :
        LET p == spawned.enemies[i].position
        IN  /\ -2048 <= p.x /\ p.x <= 2048
            /\ -2048 <= p.y /\ p.y <= 2048
            /\ window_rect.left < p.x /\ p.x < window_rect.right
            /\ window_rect.bottom < p.y /\ p.y < window_rect.top

C7_Witness ==
    \E i \in Enemies :
        /\ spawned.enemies[i].position.x = -2048
        /\ spawned.enemies[i].position.y = 2047

\* C8: an update whose alive-gated branch ran leaves the player dead and
\* black if some enemy was, after the movement and before clamping, closer
\* than the sum of the radii on both axes, and alive and white otherwise.
C8_DeadIffHit ==
    last.gated =>
        IF Hit(moved)
           THEN ~world.player.alive /\ world.player.color = Black
           ELSE world.player.alive /\ world.player.color = White

C8_Witness ==
    /\ last.gated
    /\ ~last.reset
    /\ Hit(moved)
    /\ ~world.player.alive
    /\ world.player.color = Black

\* C9: the overlap test gives the same answer for (a, b) and for (b, a).
C9_OverlapSymmetric ==
    probe.run => (probe.ab = probe.ba)

C9_Witness ==
    /\ probe.run
    /\ probe.ab
    /\ probe.a.position.x < probe.b.position.x
    /\ probe.a.radius # probe.b.radius

\* C10 as stated: in every update whose alive-gated branch runs, every enemy
\* ends at most one unit, on each axis, from where it was when the update
\* began.
C10_EnemyEndsWithinOne ==
    [][last'.gated =>
          \A i \in Enemies :
              WithinOne(world'.enemies[i].position, world.enemies[i].position)]_vars

\* C10, amended: in every update whose alive-gated branch runs, the movement
\* step puts every enemy at most one unit, on each axis, from where the
\* branch found it (where the update began or, after a restart, where it was
\* spawned); the update leaves it there clamped to the window, so at most one
\* unit from its start whenever that start lay inside the window.
C10_EnemyStepsWithinOne ==
    [][last'.gated =>
          LET start == IF last'.reset THEN spawned' ELSE world
          IN  \A i \in Enemies :
                /\ WithinOne(moved'.enemies[i].position, start.enemies[i].position)
                /\ world'.enemies[i].position
                      = world_boundary(app', moved'.enemies[i].position)
                /\ InRect(app'.window_rect, start.enemies[i].position)
                      => WithinOne(world'.enemies[i].position, start.enemies[i].position)]_vars

C10_Witness ==
    /\ last.gated
    /\ ~last.reset
    /\ world.player.alive
    /\ \E i \in Enemies : world.enemies[i].position # moved.enemies[i].position


\* C11: a dead player can lie outside the window rectangle, and does so only
\* after an update that skipped the alive-gated branch, and with it the
\* clamping: the frame in which the player died clamped it into that frame's
\* rectangle.
C11_DeadOutsideOnlyUnclamped ==
    (~world.player.alive /\ ~InRect(app.window_rect, world.player.position))
        => (~last.gated /\ ~last.was_alive)

C11_Witness ==
    /\ ~world.player.alive
    /\ world.player.color = Black
    /\ ~InRect(app.window_rect, world.player.position)
    /\ InRect(window_rect, world.player.position)


\* The value of v brought into [lo, hi].
Clamp(v, lo, hi) == IF v < lo THEN lo ELSE IF v > hi THEN hi ELSE v

\* C12: at the end of every update whose alive-gated branch ran, the player
\* is on that frame's pointer position clamped to the window rectangle, and
\* on the pointer itself when the pointer is inside the rectangle.
C12_PlayerOnClampedPointer ==
    last.gated =>
        /\ world.player.position.x
              = Clamp(app.mouse.x, app.window_rect.left, app.window_rect.right)
        /\ world.player.position.y
              = Clamp(app.mouse.y, app.window_rect.bottom, app.window_rect.top)
        /\ InRect(app.window_rect, app.mouse) => world.player.position = app.mouse

C12_Witness ==
    /\ last.gated
    /\ last.was_alive
    /\ world.player.alive
    /\ ~InRect(app.window_rect, app.mouse)
    /\ world.player.position.x = app.window_rect.right
    /\ world.player.position.y = app.window_rect.bottom


\* The App showing the pointer m, the window rectangle r and the left button
\* down or up.
Shown(m, r, down) == [mouse |-> m, left_down |-> down, window_rect |-> r]

\* C13: an update called on a living player does the same with the button
\* down as with it up, whatever the pointer, the window and the enemies'
\* steps are: it leaves the same world, controls having kept the world it was
\* given (a living world has no restart to draw spawn positions for).
C13_PressWhileAliveChangesNothing ==
    world.player.alive =>
        \A m \in Pointers, r \in Rects, vs \in WalkDraws :
            /\ update(Shown(m, r, TRUE), world, NoDraws, vs).world
                  = update(Shown(m, r, FALSE), world, NoDraws, vs).world
            /\ update(Shown(m, r, TRUE), world, NoDraws, vs).controlled = world

C13_Witness ==
    /\ last.was_alive
    /\ app.left_down
    /\ last.gated
    /\ ~last.reset
    /\ world.player.alive
    /\ age = 1
    /\ \A i \in Enemies :
          WithinOne(moved.enemies[i].position, spawned.enemies[i].position)


\* C15: in every reachable state the world holds the configured number of
\* enemies, every entity has radius 5.0, and every enemy is alive and red.
C15_EnemiesFixed ==
    /\ Len(world.enemies) = NumEnemies
    /\ world.player.radius = 50
    /\ \A i \in 1..Len(world.enemies) :
          /\ world.enemies[i].radius = 50
          /\ world.enemies[i].alive
          /\ world.enemies[i].color = Red

C15_Witness ==
    /\ last.gated
    /\ ~world.player.alive
    /\ \E i \in 1..Len(world.enemies) :
          /\ overlaps(moved.player, moved.enemies[i])
          /\ world.enemies[i].alive
          /\ world.enemies[i].position # spawned.enemies[i].position

\* C16: in every reachable state the player is black exactly when it is
\* dead and white exactly when it is alive.
C16_ColorTellsAlive ==
    /\ (world.player.color = Black) <=> ~world.player.alive
    /\ (world.player.color = White) <=> world.player.alive

C16_Witness ==
    /\ ~last.was_alive
    /\ last.reset
    /\ world.player.alive
    /\ world.player.color = White

\* C17 as stated: at the end of every update, a living player overlaps no
\* enemy in the positions the update leaves.
C17_AliveOverlapsNoEnemy ==
    world.player.alive =>
        \A i \in 1..Len(world.enemies) : ~overlaps(world.player, world.enemies[i])

----------------------------------------------------------------------------
(* Collision detection on its own: any player position and enemy collection *)

\* Longest enemy collection tried.
MaxLen == 2

\* Enemies around the origin: two that overlap a player there, one that
\* touches it, one far away.
DetectEnemies ==
    {[Enemy_default EXCEPT !.position = p]
     : p \in {[x |-> 60, y |-> 60], [x |-> -99, y |-> -99],
              [x |-> 100, y |-> 0], [x |-> 300, y |-> 300]}}

DetectPlayers ==
    {[Player_default EXCEPT !.position = p]
     : p \in {[x |-> 0, y |-> 0], [x |-> 30, y |-> 0], [x |-> 250, y |-> 250]}}

DetectWorlds ==
    {[player |-> p, enemies |-> es]
     : p \in DetectPlayers, es \in UNION {[1..n -> DetectEnemies] : n \in 0..MaxLen}}

\* The loop that stops at the first overlapping enemy.
RECURSIVE detect_until_hit(_, _, _)
detect_until_hit(player, enemies, i) ==
    IF i > Len(enemies) THEN player
    ELSE IF overlaps(player, enemies[i])
            THEN [player EXCEPT !.color = Black, !.alive = FALSE]
            ELSE detect_until_hit(player, enemies, i + 1)

InitDetect ==
    /\ world = setup_world(NoDraws)
    /\ spawned = world
    /\ moved = world
    /\ app = [mouse |-> [x |-> 0, y |-> 0], left_down |-> FALSE, window_rect |-> window_rect]
    /\ last = [was_alive |-> TRUE, reset |-> FALSE, gated |-> FALSE]
    /\ age = 0
    /\ \E w \in DetectWorlds :
          probe = [w |-> w, run |-> FALSE, full |-> w, short |-> w]

TestDetect ==
    /\ ~probe.run
    /\ probe' = [probe EXCEPT
                   !.run = TRUE,
                   !.full = detect_collisions(probe.w),
                   !.short = [probe.w EXCEPT
                                !.player = detect_until_hit(probe.w.player, probe.w.enemies, 1)]]
    /\ UNCHANGED <<world, app, spawned, moved, last, age>>

NextDetect == TestDetect

SpecDetect == InitDetect /\ [][NextDetect]_vars

\* C14: stopping at the first overlapping enemy leaves the same world as
\* the loop over every enemy: same alive flag, same color, same positions.
C14_ShortCircuitSameWorld ==
    probe.run => probe.short = probe.full

C14_Witness ==
    /\ probe.run
    /\ Len(probe.w.enemies) = 2
    /\ overlaps(probe.w.player, probe.w.enemies[1])
    /\ ~overlaps(probe.w.player, probe.w.enemies[2])
    /\ ~probe.full.player.alive
    /\ probe.full.player.color = Black

====
